---- MODULE Spec2Model ----
(***************************************************************************)
(* Model of project/hw3 (decorators.py, curry.py): the FIFO result cache   *)
(* cache_func, the smart_args argument binder with its Isolated and        *)
(* Evaluated markers, and curry_explicit / uncurry_explicit.               *)
(* And of project/hw2 (generators.py): as_func, pipe and collect, with the  *)
(* generators run one resumption at a time.                                *)
(*                                                                         *)
(* Python values are tagged records [t |-> <type>, v |-> <payload>]:       *)
(*   int n, list <<..>>, dict reference (heap address), marker instances   *)
(*   Isolated / Evaluated, None, a function result, a raised exception.    *)
(***************************************************************************)
EXTENDS Integers, Sequences, FiniteSets, TLC

VARIABLES
    maxsize,     \* cache_func's maxsize argument
    func,        \* the callable handed to cache_func
    decorated,   \* what cache_func returned: func itself or "wrapper"
    cache,       \* wrapper closure: dict key -> result
    key_ord,     \* wrapper closure: deque of keys, oldest first
    call_count,  \* number of times the decorated function's body has run
    eval_count,  \* number of times the Evaluated thunk has run
    heap,        \* dict objects: address -> (field -> value)
    pos_args,    \* smart_args' pos_args flag
    last,        \* the latest top-level call: its arguments and what it returned
    script,      \* how far the calls so far follow test_cache_fifo's call list
    declared,    \* the parameters of the function a test defines for smart_args
    ev_func,     \* the .func attribute of the Evaluated marker instance
    stack,       \* the wrapper calls whose miss is in progress, outermost first
    arity,       \* the arity handed to curry_explicit and uncurry_explicit
    cargs,       \* the argument tuple of the round trip
    curried,     \* curry_explicit(fn, arity)
    uncurried,   \* uncurry_explicit(curried, arity)
    stage,       \* curried(a1)...(ak): the chain applied so far
    applied,     \* k, the number of applications made on the chain
    res_uncurried, \* what uncurried(*cargs) returned
    res_wrong,   \* what uncurried returned for a wrong number of arguments
    call_log,    \* the argument tuples the curried target function has run with
    arglists,    \* the list objects the curry closures keep as args, by address
    held,        \* what the caller keeps of a branching chain: each stage or result
    source,      \* the items of the input sequence handed to pipe or a transform
    infinite,    \* whether the input is a generator repeating them for ever
    operators,   \* the operators argument of pipe: a list or tuple of transforms
    gen,         \* the generator object of the pipeline: created, running, done
    stages,      \* pipe's result chain: the transforms, innermost first
    gens,        \* the local state of each transform's generator
    src_pos,     \* position of the source iterator
    pulled,      \* number of items the source iterator has handed out
    out,         \* the items the consumer has received
    calls,       \* the stage function calls made so far, in order
    frame,       \* the next() call in progress: which generator runs, and with what
    collecting,  \* whether the consumer is list(gen)
    pull_res,    \* what the latest next(gen) returned or raised
    built        \* what the constructing calls made so far returned or raised

decoVars == <<maxsize, func, decorated, cache, key_ord, call_count, eval_count,
              heap, pos_args, last, script, declared, ev_func, stack>>

curryVars == <<arity, cargs, curried, uncurried, stage, applied, res_uncurried,
               res_wrong, call_log, arglists, held>>

pipeVars == <<source, infinite, operators, gen, stages, gens, src_pos, pulled, out,
              calls, frame, collecting, pull_res, built>>

vars == <<decoVars, curryVars, pipeVars>>

----------------------------------------------------------------------------
(* Bounds *)

MaxCalls == 5

----------------------------------------------------------------------------
(* Values *)

IntV(n) == [t |-> "int", v |-> n]

ListV(s) == [t |-> "list", v |-> s]

Ref(a) == [t |-> "ref", v |-> a]

None == [t |-> "None", v |-> 0]

Raised(e) == [t |-> "raise", v |-> e]

IsRaise(r) == r.t = "raise"

\* hash(v): lists and dicts are unhashable, everything else used here hashes
Hashable(v) == v.t \notin {"list", "ref"}

\* str ordering of the keyword names that occur, as sorted() sees them
KwNames == <<"a", "b", "lst", "x">>

KwRank(name) == CHOOSE i \in 1..Len(KwNames) : KwNames[i] = name

RECURSIVE InsertItem(_, _)
InsertItem(item, s) ==
    IF s = <<>> THEN <<item>>
    ELSE IF KwRank(item[1]) < KwRank(Head(s)[1]) THEN <<item>> \o s
    ELSE <<Head(s)>> \o InsertItem(item, Tail(s))

RECURSIVE sorted(_)
sorted(items) ==
    IF items = <<>> THEN <<>>
    ELSE InsertItem(Head(items), sorted(Tail(items)))

unsorted(items) == items

\* tuple(sorted(kwargs.items())): the items ordered by keyword name
kwargs_items(kwargs) == sorted(kwargs)

Range(s) == {s[i] : i \in DOMAIN s}

hash_ok(args, kwargs) ==
    /\ \A v \in Range(args) : Hashable(v)
    /\ \A it \in Range(kwargs) : Hashable(it[2])

\* cache_keys: (args,) + tuple(sorted(kwargs.items())), TypeError when unhashable
cache_keys(args, kwargs) ==
    IF hash_ok(args, kwargs)
    THEN [ok |-> TRUE, key |-> <<args>> \o kwargs_items(kwargs)]
    ELSE [ok |-> FALSE, key |-> <<>>]

----------------------------------------------------------------------------
(* Heap of dict objects, copy.deepcopy *)

MaxAddr == 12

Addrs == 1..MaxAddr

EmptyDict == [f \in {} |-> None]

NewAddr(h) == CHOOSE a \in Addrs \ DOMAIN h : \A b \in Addrs \ DOMAIN h : a <= b

SetItem(h, a, f, val) == [h EXCEPT ![a] = (f :> val) @@ h[a]]

RECURSIVE deepcopy(_, _)
RECURSIVE deepcopy_items(_, _, _, _)

\* copy.copy would do this: a new outer dict holding the same inner objects
shallowcopy(h, v) ==
    IF v.t = "ref"
    THEN LET a == NewAddr(h)
         IN [heap |-> h @@ (a :> h[v.v]), val |-> Ref(a)]
    ELSE [heap |-> h, val |-> v]

\* copy.deepcopy(v): a dict is rebuilt with every value deep-copied in turn;
\* ints are immutable and returned as they are; a marker instance is
\* reconstructed as a new instance (identity 0 stands for "some new one")
deepcopy(h, v) ==
    IF v.t = "ref"
    THEN LET a == NewAddr(h)
         IN [heap |-> deepcopy_items(h @@ (a :> EmptyDict), a, h[v.v], DOMAIN h[v.v]),
             val |-> Ref(a)]
    ELSE IF v.t \in {"Isolated", "Evaluated"}
    THEN [heap |-> h, val |-> [v EXCEPT !.v = 0]]
    ELSE [heap |-> h, val |-> v]

deepcopy_items(h, a, obj, todo) ==
    IF todo = {} THEN h
    ELSE LET f == CHOOSE x \in todo : TRUE
             c == deepcopy(h, obj[f])
         IN deepcopy_items(SetItem(c.heap, a, f, c.val), a, obj, todo \ {f})

RECURSIVE Reach(_, _)
\* the objects kept alive by the references in `roots`
Reach(h, roots) ==
    LET next == roots \cup UNION {{h[a][f].v : f \in {g \in DOMAIN h[a] : h[a][g].t = "ref"}} : a \in roots}
    IN IF next = roots THEN roots ELSE Reach(h, next)

\* reference counting frees what neither the caller's objects nor `val` reach
Collect(h, roots, val) ==
    LET live == Reach(h, roots \cup (IF val.t = "ref" THEN {val.v} ELSE {}))
    IN [a \in live |-> h[a]]

----------------------------------------------------------------------------
(* smart_args, Isolated, Evaluated *)

\* inspect.Parameter.empty: the parameter has no default
Empty == [t |-> "empty", v |-> 0]

\* Isolated(): one marker instance, created where the def statement runs
Isolated == [t |-> "Isolated", v |-> 1]

\* Evaluated(thunk): one marker instance holding the thunk in .func
Evaluated == [t |-> "Evaluated", v |-> 2]

\* an instance of a class deriving from both Isolated and Evaluated
Both == [t |-> "Both", v |-> 3]

\* the tests' thunks get_timestamp, dynamic_value, counter: a function object
get_timestamp == [t |-> "function", v |-> "get_timestamp"]

\* Evaluated.__init__(func) for the instance `marker`: ValueError for None,
\* anything else is kept in .func
Evaluated_init(marker, f) == IF f = None THEN Raised("ValueError") ELSE marker

Param(name, kind, default) == [name |-> name, kind |-> kind, default |-> default]

\* isinstance(param.default, Isolated)
is_iso(default) == default.t \in {"Isolated", "Both"}

\* isinstance(param.default, Evaluated)
is_eva(default) == default.t \in {"Evaluated", "Both"}

smart_args_unchecked(f, sig, pa) == f

\* smart_args(func, pos_args): the two assertions of the decoration loop,
\* then the wrapper (named as the function it wraps)
smart_args(f, sig, pa) ==
    IF \A i \in DOMAIN sig :
          LET is_kwarg == sig[i].kind \in {"KEYWORD_ONLY", "POSITIONAL_OR_KEYWORD"}
              is_pos_allowed == pa /\ sig[i].kind \in {"POSITIONAL_ONLY", "POSITIONAL_OR_KEYWORD"}
          IN /\ (is_kwarg \/ is_pos_allowed) \/ ~(is_iso(sig[i].default) \/ is_eva(sig[i].default))
             /\ ~(is_iso(sig[i].default) /\ is_eva(sig[i].default))
    THEN f
    ELSE "AssertionError"

\* inspect.signature of the decorated functions
\*   def process_data(data=Isolated(), timestamp=Evaluated(get_timestamp))
\*   def composed_func(*, x=Evaluated(dynamic_value))
\*   def bad_func(...): as the test declared it
signature(f) ==
    IF f = "process_data"
    THEN << Param("data", "POSITIONAL_OR_KEYWORD", Isolated),
            Param("timestamp", "POSITIONAL_OR_KEYWORD", Evaluated) >>
    ELSE IF f = "composed_func"
    THEN << Param("x", "KEYWORD_ONLY", Evaluated) >>
    ELSE IF f = "bad_func" THEN declared
    ELSE << >>

ParamNames(sig) == {sig[i].name : i \in DOMAIN sig}

ParamOf(sig, name) == sig[CHOOSE i \in DOMAIN sig : sig[i].name = name]

\* the decoration loop: names whose default is an Isolated instance
isolated(sig) == {sig[i].name : i \in {j \in DOMAIN sig : sig[j].default.t = "Isolated"}}

\* the decoration loop: names whose default is an Evaluated instance
evaluated(sig) == {sig[i].name : i \in {j \in DOMAIN sig : sig[j].default.t = "Evaluated"}}

\* the parameters positional arguments fill, in declaration order
PosParams(sig) ==
    SelectSeq(sig, LAMBDA p : p.kind \in {"POSITIONAL_ONLY", "POSITIONAL_OR_KEYWORD"})

KwItem(kwargs, name) == kwargs[CHOOSE i \in DOMAIN kwargs : kwargs[i][1] = name][2]

KwGiven(kwargs) == {kwargs[i][1] : i \in DOMAIN kwargs}

\* sig.bind(*args, **kwargs): name -> value for the arguments given, TypeError
\* on too many positionals, an unknown or doubly given name, a missing argument
bind(sig, args, kwargs) ==
    LET pos == PosParams(sig)
        byPos == {pos[i].name : i \in 1..(IF Len(args) < Len(pos) THEN Len(args) ELSE Len(pos))}
        kwOk == \A n \in KwGiven(kwargs) :
                    /\ n \in ParamNames(sig)
                    /\ ParamOf(sig, n).kind \in {"KEYWORD_ONLY", "POSITIONAL_OR_KEYWORD"}
                    /\ n \notin byPos
        given == byPos \cup KwGiven(kwargs)
        missing == {n \in ParamNames(sig) \ given : ParamOf(sig, n).default = Empty}
    IN IF Len(args) > Len(pos) \/ ~kwOk \/ missing # {}
       THEN [ok |-> FALSE, arguments |-> EmptyDict]
       ELSE [ok |-> TRUE,
             arguments |-> [n \in given |->
                 IF n \in byPos
                 THEN args[CHOOSE i \in DOMAIN pos : pos[i].name = n]
                 ELSE KwItem(kwargs, n)]]

\* arguments.apply_defaults(): every parameter left unbound gets its default
apply_defaults(sig, arguments) ==
    [n \in DOMAIN arguments \cup {m \in ParamNames(sig) : ParamOf(sig, m).default # Empty} |->
        IF n \in DOMAIN arguments THEN arguments[n] ELSE ParamOf(sig, n).default]

\* the world the decorated functions act on
World(cc, ec, h) == [call_count |-> cc, eval_count |-> ec, heap |-> h]

\* the thunks of the tests (get_timestamp, dynamic_value, counter):
\* count the evaluation and return a value made from the new count
thunk(w) ==
    [w |-> [w EXCEPT !.eval_count = @ + 1], ret |-> IntV(100 + w.eval_count + 1)]

isolate_shallow(h, v) == shallowcopy(h, v)

\* arguments.arguments[name] = copy.deepcopy(arguments.arguments[name])
isolate_value(h, v) == deepcopy(h, v)

RECURSIVE isolate(_, _, _)
\* for name in isolated: if name in arguments.arguments: deep-copy it
isolate(h, arguments, names) ==
    IF names = {} THEN [heap |-> h, arguments |-> arguments]
    ELSE LET n == CHOOSE x \in names : TRUE
         IN IF n \in DOMAIN arguments
            THEN LET c == isolate_value(h, arguments[n])
                 IN isolate(c.heap, [arguments EXCEPT ![n] = c.val], names \ {n})
            ELSE isolate(h, arguments, names \ {n})

\* arguments.arguments[name] == sig.parameters[name].default
is_default(sig, arguments, n) == arguments[n] = ParamOf(sig, n).default

\* ev_func(): calling what the marker holds; TypeError if it is not callable
ev_call(f, w) ==
    IF f.t = "function" THEN thunk(w) ELSE [w |-> w, ret |-> Raised("TypeError")]

RECURSIVE evaluate(_, _, _, _)
\* for name, ev_func in evaluated.items(): a value equal to the default
\* marker is replaced by ev_func()
evaluate(sig, w, arguments, names) ==
    IF names = {} THEN [w |-> w, arguments |-> arguments, raised |-> FALSE]
    ELSE LET n == CHOOSE x \in names : TRUE
         IN IF is_default(sig, arguments, n)
            THEN LET r == ev_call(ev_func, w)
                 IN IF IsRaise(r.ret)
                    THEN [w |-> r.w, arguments |-> arguments, raised |-> TRUE]
                    ELSE evaluate(sig, r.w, [arguments EXCEPT ![n] = r.ret], names \ {n})
            ELSE evaluate(sig, w, arguments, names \ {n})

\* the decorated functions' bodies, as the tests write them
\*   composed_func: call_count += 1; return x
\*   process_data:  data["processed"] = True; data["timestamp"] = timestamp
\*                  data["nested"]["value"] = 999
\*                  data["nested"]["deep"]["value"] = 999; return data
\*   bad_func:      return data
body(f, w, arguments) ==
    LET w1 == [w EXCEPT !.call_count = @ + 1]
    IN IF f = "composed_func" THEN [w |-> w1, ret |-> arguments["x"]]
       ELSE IF f = "bad_func" THEN [w |-> w1, ret |-> arguments["data"]]
       ELSE LET data == arguments["data"]
            IN IF data.t # "ref" THEN [w |-> w1, ret |-> Raised("TypeError")]
               ELSE LET h1 == SetItem(w.heap, data.v, "processed", IntV(1))
                        h2 == SetItem(h1, data.v, "timestamp", arguments["timestamp"])
                        top == h2[data.v]
                    IN IF "nested" \notin DOMAIN top \/ top["nested"].t # "ref"
                       THEN [w |-> [w1 EXCEPT !.heap = h2], ret |-> Raised("KeyError")]
                       ELSE LET nested == top["nested"].v
                                h3 == SetItem(h2, nested, "value", IntV(999))
                            IN IF "deep" \notin DOMAIN h3[nested] \/ h3[nested]["deep"].t # "ref"
                               THEN [w |-> [w1 EXCEPT !.heap = h3], ret |-> Raised("KeyError")]
                               ELSE [w |-> [w1 EXCEPT !.heap =
                                              SetItem(h3, h3[nested]["deep"].v, "value", IntV(999))],
                                     ret |-> data]

\* smart_args.wrapper: bind, apply defaults, isolate, evaluate, call func
smart_wrapper(f, w, args, kwargs) ==
    LET sig == signature(f)
        b == bind(sig, args, kwargs)
    IN IF ~b.ok THEN [w |-> w, ret |-> Raised("TypeError")]
       ELSE LET i == isolate(w.heap, apply_defaults(sig, b.arguments), isolated(sig))
                e == evaluate(sig, [w EXCEPT !.heap = i.heap], i.arguments, evaluated(sig))
            IN IF e.raised THEN [w |-> e.w, ret |-> Raised("TypeError")]
               ELSE body(f, e.w, e.arguments)

RECURSIVE SeqSum(_)
SeqSum(s) == IF s = <<>> THEN 0 ELSE Head(s) + SeqSum(Tail(s))

ValSum(v) == IF v.t = "int" THEN v.v ELSE IF v.t = "list" THEN SeqSum(v.v) ELSE 0

RECURSIVE ArgSum(_)
ArgSum(vals) == IF vals = <<>> THEN 0 ELSE ValSum(Head(vals)) + ArgSum(Tail(vals))

KwValues(kwargs) == [i \in DOMAIN kwargs |-> kwargs[i][2]]

\* the tests' counting functions (add, mul, process): count the call and
\* return a value computed from the arguments; the result also carries the
\* call's ordinal, as dynamic_value's does
\* and the keyword names in the order the call gave them
fn(w, args, kwargs) ==
    [w |-> [w EXCEPT !.call_count = @ + 1],
     ret |-> [t |-> "res",
              v |-> <<ArgSum(args) + ArgSum(KwValues(kwargs)), w.call_count + 1,
                      [i \in DOMAIN kwargs |-> kwargs[i][1]]>>]]

\* func(*args, **kwargs) for the callable handed to cache_func
CallFunc(f, w, args, kwargs) ==
    IF f = "fn" THEN fn(w, args, kwargs) ELSE smart_wrapper(f, w, args, kwargs)

----------------------------------------------------------------------------
(* curry_explicit, uncurry_explicit *)

\* the function object being curried
Func == [t |-> "func", v |-> 0]

RECURSIVE AltSum(_)
AltSum(s) == IF s = <<>> THEN 0 ELSE Head(s) - AltSum(Tail(s))

\* the tests' targets, lambda: 42 and lambda a, b, c, d: a - b + c - d, at
\* the arity in use: TypeError on any other number of arguments.  n is the
\* tests' call_log, to which a run of the body appends its arguments
target(ar, args, n) ==
    IF Len(args) # ar THEN [ret |-> Raised("TypeError"), n |-> n]
    ELSE [ret |-> IntV(IF ar = 0 THEN 42 ELSE AltSum(args)), n |-> Append(n, args)]

\* curry(args): func(*args) once len(args) == arity, else the next lambda,
\* a closure over args
curry(ar, acc, n) ==
    IF Len(acc) = ar THEN target(ar, acc, n)
    ELSE [ret |-> [t |-> "curried", v |-> acc], n |-> n]

lambda_prepends(c, x, ar, n) == curry(ar, <<x>> \o c.v, n)

\* lambda x: curry(args + [x])
lambda(c, x, ar, n) == curry(ar, Append(c.v, x), n)

curry_explicit_no_zero(ar, n) ==
    IF ar < 0 THEN [ret |-> Raised("ValueError"), n |-> n]
    ELSE curry(ar, <<>>, n)

\* curry_explicit(func, arity)
curry_explicit(ar, n) ==
    IF ar < 0 THEN [ret |-> Raised("ValueError"), n |-> n]
    ELSE IF ar = 0 THEN [ret |-> Func, n |-> n]
    ELSE curry(ar, <<>>, n)

\* uncurry_explicit(func, arity): the closure uncurry keeps func
uncurry_explicit(f, ar) ==
    IF ar < 0 THEN Raised("ValueError")
    ELSE IF ar = 0 THEN f
    ELSE [t |-> "uncurry", v |-> f]

RECURSIVE Apply(_, _, _, _)
RECURSIVE feed(_, _, _, _)

\* for arg in args: result = result(arg)
feed(result, args, ar, n) ==
    IF args = <<>> THEN [ret |-> result, n |-> n]
    ELSE LET r == Apply(result, <<Head(args)>>, ar, n)
         IN IF IsRaise(r.ret) THEN r ELSE feed(r.ret, Tail(args), ar, r.n)

\* TypeError(f"Expected {arity} arguments, got {len(args)}")
Expected(ar, got) == [t |-> "raise", v |-> "TypeError", expected |-> ar, got |-> got]

uncurry_unchecked(f, args, ar, n) == feed(f, args, ar, n)

\* uncurry(*args): TypeError unless len(args) == arity, then feed them
uncurry(f, args, ar, n) ==
    IF Len(args) # ar THEN [ret |-> Expected(ar, Len(args)), n |-> n]
    ELSE feed(f, args, ar, n)

\* c(*args) for the callables of this module; calling anything else, or a
\* one-argument lambda with another number of arguments, is a TypeError
Apply(c, args, ar, n) ==
    IF c.t = "func" THEN target(ar, args, n)
    ELSE IF c.t = "curried"
    THEN IF Len(args) = 1 THEN lambda(c, args[1], ar, n)
         ELSE [ret |-> Raised("TypeError"), n |-> n]
    ELSE IF c.t = "uncurry" THEN uncurry(c.v, args, ar, n)
    ELSE [ret |-> Raised("TypeError"), n |-> n]

\* curry(args) with args the list object at address l of the lists h: the
\* lambda it returns closes over that object, not over a copy of it
curry_cell(h, l, ar, n) ==
    IF Len(h[l]) = ar
    THEN LET r == target(ar, h[l], n) IN [h |-> h, ret |-> r.ret, n |-> r.n]
    ELSE [h |-> h, ret |-> [t |-> "stage", v |-> l], n |-> n]

apply_stage_shared(h, l, x, ar, n) ==
    curry_cell([h EXCEPT ![l] = Append(@, x)], l, ar, n)

\* the lambda over the list at l called with x: curry(args + [x]), where
\* args + [x] is a new list object
apply_stage(h, l, x, ar, n) ==
    curry_cell(Append(h, Append(h[l], x)), Len(h) + 1, ar, n)

----------------------------------------------------------------------------
(* cache_func *)

cache_func_always_wraps(f, ms) == "wrapper"

\* if maxsize <= 0: return func; otherwise the wrapper closure is returned
cache_func(f, ms) == IF ms <= 0 THEN f ELSE "wrapper"

in_cache_never(c, key) == FALSE

\* key in cache
in_cache(c, key) == key \in DOMAIN c

hit_refreshes(st, key) ==
    [cache |-> st.cache,
     key_ord |-> Append(SelectSeq(st.key_ord, LAMBDA k : k # key), key),
     w |-> st.w, ret |-> st.cache[key]]

\* return cache[key]
hit(st, key) ==
    [cache |-> st.cache, key_ord |-> st.key_ord, w |-> st.w, ret |-> st.cache[key]]

DelItem(c, key) == [k \in DOMAIN c \ {key} |-> c[k]]

evict_newest(c, q) ==
    [cache |-> DelItem(c, q[Len(q)]), key_ord |-> SubSeq(q, 1, Len(q) - 1),
     ok |-> q[Len(q)] \in DOMAIN c]

\* pop_key = key_ord.popleft(); del cache[pop_key]  (KeyError when absent)
evict(c, q) ==
    [cache |-> DelItem(c, Head(q)), key_ord |-> Tail(q), ok |-> Head(q) \in DOMAIN c]

\* cache[key] = result; key_ord.append(key); evict while over maxsize
store(ms, st, key, r) ==
    LET c1 == (key :> r.ret) @@ st.cache
        q1 == Append(st.key_ord, key)
    IN IF Cardinality(DOMAIN c1) > ms
       THEN LET e == evict(c1, q1)
            IN [cache |-> e.cache, key_ord |-> e.key_ord, w |-> r.w,
                ret |-> IF e.ok THEN r.ret ELSE Raised("KeyError")]
       ELSE [cache |-> c1, key_ord |-> q1, w |-> r.w, ret |-> r.ret]

finish_stores_always(ms, st, k, r) == store(ms, st, k.key, r)

\* cache_func.wrapper from the point where func(*args, **kwargs) comes back,
\* with r.ret what it returned or raised and k the outcome of cache_keys
finish(ms, st, k, r) ==
    IF ~k.ok \/ IsRaise(r.ret)
    THEN [cache |-> st.cache, key_ord |-> st.key_ord, w |-> r.w, ret |-> r.ret]
    ELSE store(ms, st, k.key, r)

cache_wrapper_no_except(f, ms, st, args, kwargs) ==
    LET k == cache_keys(args, kwargs)
    IN IF ~k.ok
       THEN [cache |-> st.cache, key_ord |-> st.key_ord, w |-> st.w,
             ret |-> Raised("TypeError")]
       ELSE IF in_cache(st.cache, k.key) THEN hit(st, k.key)
       ELSE LET r == CallFunc(f, st.w, args, kwargs)
            IN IF IsRaise(r.ret)
               THEN [cache |-> st.cache, key_ord |-> st.key_ord, w |-> r.w, ret |-> r.ret]
               ELSE store(ms, st, k.key, r)

\* cache_func.wrapper
cache_wrapper(f, ms, st, args, kwargs) ==
    LET k == cache_keys(args, kwargs)
    IN IF ~k.ok
       THEN LET r == CallFunc(f, st.w, args, kwargs)
            IN [cache |-> st.cache, key_ord |-> st.key_ord, w |-> r.w, ret |-> r.ret]
       ELSE IF in_cache(st.cache, k.key) THEN hit(st, k.key)
       ELSE LET r == CallFunc(f, st.w, args, kwargs)
            IN IF IsRaise(r.ret)
               THEN [cache |-> st.cache, key_ord |-> st.key_ord, w |-> r.w, ret |-> r.ret]
               ELSE store(ms, st, k.key, r)

----------------------------------------------------------------------------
(* The callers *)

MaxMaxsize == 2

MaxsizeArgs == -1..MaxMaxsize

\* the caller's own nested dict, as in test_deepcopy_nested_structures
OriginalHeap ==
    (1 :> ("id" :> IntV(123) @@ "nested" :> Ref(2)))
    @@ (2 :> ("value" :> IntV(1) @@ "deep" :> Ref(3)))
    @@ (3 :> ("value" :> IntV(1)))

OriginalAddrs == DOMAIN OriginalHeap

Kw(name, val) == <<name, val>>

Input(args, kwargs) == [args |-> args, kwargs |-> kwargs]

\* calls of the cached plain function
FnInputs ==
    { Input(<<IntV(1), IntV(2)>>, <<>>),
      Input(<<IntV(3), IntV(4)>>, <<>>),
      Input(<<IntV(5), IntV(6)>>, <<>>),
      Input(<<>>, <<Kw("a", IntV(1)), Kw("b", IntV(2))>>),
      Input(<<>>, <<Kw("b", IntV(2)), Kw("a", IntV(1))>>),
      Input(<<ListV(<<1, 2, 3>>)>>, <<>>),
      Input(<<IntV(1)>>, <<Kw("lst", ListV(<<1, 2, 3>>))>>) }

\* calls of the cached composed_func
ComposedInputs ==
    { Input(<<>>, <<>>),
      Input(<<>>, <<Kw("x", IntV(999))>>),
      Input(<<>>, <<Kw("x", Evaluated)>>) }

DataArgs == {Ref(1), Ref(2)}

TimestampArgs == {IntV(42), Evaluated}

\* calls of process_data: each parameter omitted, positional or by keyword
SmartInputs ==
    LET pos == {<<>>} \cup {<<d>> : d \in DataArgs}
                 \cup {<<d, ts>> : d \in DataArgs, ts \in TimestampArgs}
        kw == {<<>>} \cup {<<Kw("data", d)>> : d \in DataArgs}
                \cup {<<Kw("timestamp", ts)>> : ts \in TimestampArgs}
                \cup {<<Kw("data", d), Kw("timestamp", ts)>> : d \in DataArgs, ts \in TimestampArgs}
    IN {Input(a, k) : a \in pos, k \in kw}

\* the call list of the cache_func docstring example and test_cache_fifo_eviction
FifoScript ==
    << <<IntV(1), IntV(2)>>, <<IntV(1), IntV(2)>>, <<IntV(3), IntV(4)>>,
       <<IntV(5), IntV(6)>>, <<IntV(1), IntV(2)>> >>

NextScript(pos, inp) ==
    IF pos >= 0 /\ pos < Len(FifoScript) /\ inp.kwargs = <<>> /\ inp.args = FifoScript[pos + 1]
    THEN pos + 1 ELSE -1

(* hw2/generators.py: as_func, pipe, collect *)

MaxLen == 3

MaxOut == 3

MaxLog == 12

\* an iterator that has no further item
Stop == [t |-> "StopIteration", v |-> 0]

BoolV(b) == [t |-> "bool", v |-> b]

\* the tests' lambdas
Function(name) == [t |-> "function", v |-> name]

double == Function("double")

square == Function("square")

positive == Function("positive")

add == Function("add")

mul == Function("mul")

\* f(x) for the one-argument lambdas
call1(f, x) ==
    IF f.v = "double" THEN IntV(x.v * 2)
    ELSE IF f.v = "square" THEN IntV(x.v * x.v)
    ELSE BoolV(x.v > 0)

\* f(a, b) for the two-argument lambdas
call2(f, a, b) == IntV(IF f.v = "add" THEN a.v + b.v ELSE a.v * b.v)

\* bool(v)
Truthy(v) == IF v.t = "bool" THEN v.v ELSE IF v.t = "int" THEN v.v # 0 ELSE v.t # "None"

\* the wrapper as_func returns: a generator function closed over the
\* operator, the function it applies and the extra positional arguments
Transform(operator, f, args) == [t |-> "transform", op |-> operator, func |-> f, args |-> args]

as_func_unchecked(operator, args, func_, pred) ==
    Transform(operator, IF Truthy(func_) THEN func_ ELSE pred, args)

\* as_func(operator, *args, func=None, pred=None)
as_func(operator, args, func_, pred) ==
    IF operator = "map"
    THEN IF func_ = None THEN Raised("ValueError") ELSE Transform("map", func_, args)
    ELSE IF operator = "filter"
    THEN LET predicate == IF Truthy(func_) THEN func_ ELSE pred
         IN IF predicate = None THEN Raised("ValueError")
            ELSE Transform("filter", predicate, args)
    ELSE IF operator = "zip" THEN Transform("zip", None, args)
    ELSE IF operator = "reduce"
    THEN IF func_ = None THEN Raised("ValueError")
         ELSE IF Len(args) > 1 THEN Raised("ValueError")
         ELSE Transform("reduce", func_, args)
    ELSE Transform(operator, IF Truthy(func_) THEN func_ ELSE pred, args)

\* a generator object that has not been started
NewGen == [phase |-> "fresh", acc |-> None]

\* reduce's accumulator before the first item, when no initializer is given
Unset == [t |-> "unset", v |-> 0]

Finished(l) == [l EXCEPT !.phase = "done"]

\* what the generator of a transform does when next() resumes it: ask the
\* upstream iterator for an item ("down") or hand something to its consumer
\* ("up")
resume(s, l) ==
    IF l.phase = "done" THEN [l |-> l, dir |-> "up", item |-> Stop]
    ELSE IF s.op = "reduce"
    THEN IF l.phase = "fresh"
         THEN [l |-> [phase |-> "running",
                      acc |-> IF s.args # <<>> THEN s.args[1] ELSE Unset],
               dir |-> "down", item |-> None]
         ELSE [l |-> Finished(l), dir |-> "up", item |-> Stop]
    ELSE [l |-> [l EXCEPT !.phase = "running"], dir |-> "down", item |-> None]

\* a map that keeps one item in hand and asks for the next before yielding
receive_lookahead(s, l, x) ==
    IF x.t = "StopIteration" \/ IsRaise(x)
    THEN [l |-> Finished(l), dir |-> "up", item |-> x, called |-> <<>>]
    ELSE IF s.op # "map"
    THEN [l |-> l, dir |-> "up", item |-> x, called |-> <<>>]
    ELSE IF l.acc.t = "None"
    THEN [l |-> [l EXCEPT !.acc = x], dir |-> "down", item |-> None, called |-> <<>>]
    ELSE [l |-> [l EXCEPT !.acc = x], dir |-> "up", item |-> call1(s.func, l.acc),
          called |-> <<l.acc>>]

\* a reduce that yields every running total, as itertools.accumulate does
receive_accumulates(s, l, x) ==
    IF x.t = "StopIteration" \/ IsRaise(x)
    THEN [l |-> Finished(l), dir |-> "up", item |-> x, called |-> <<>>]
    ELSE IF s.op = "map"
    THEN [l |-> l, dir |-> "up", item |-> call1(s.func, x), called |-> <<x>>]
    ELSE IF s.op = "filter"
    THEN IF Truthy(call1(s.func, x))
         THEN [l |-> l, dir |-> "up", item |-> x, called |-> <<x>>]
         ELSE [l |-> l, dir |-> "down", item |-> None, called |-> <<x>>]
    ELSE IF l.acc.t = "unset"
    THEN [l |-> [l EXCEPT !.acc = x], dir |-> "up", item |-> x, called |-> <<>>]
    ELSE [l |-> [l EXCEPT !.acc = call2(s.func, l.acc, x)], dir |-> "up",
          item |-> call2(s.func, l.acc, x), called |-> <<l.acc, x>>]

\* what the generator of a transform does with what its upstream iterator
\* returned: an item, StopIteration or an exception
receive(s, l, x) ==
    IF IsRaise(x) THEN [l |-> Finished(l), dir |-> "up", item |-> x, called |-> <<>>]
    ELSE IF x.t = "StopIteration"
    THEN IF s.op = "reduce"
         THEN IF l.acc.t = "unset"
              THEN [l |-> Finished(l), dir |-> "up", item |-> Raised("TypeError"),
                    called |-> <<>>]
              ELSE [l |-> [l EXCEPT !.phase = "yielded"], dir |-> "up",
                    item |-> l.acc, called |-> <<>>]
         ELSE [l |-> Finished(l), dir |-> "up", item |-> x, called |-> <<>>]
    ELSE IF s.op = "map"
    THEN [l |-> l, dir |-> "up", item |-> call1(s.func, x), called |-> <<x>>]
    ELSE IF s.op = "filter"
    THEN IF Truthy(call1(s.func, x))
         THEN [l |-> l, dir |-> "up", item |-> x, called |-> <<x>>]
         ELSE [l |-> l, dir |-> "down", item |-> None, called |-> <<x>>]
    ELSE IF l.acc.t = "unset"
    THEN [l |-> [l EXCEPT !.acc = x], dir |-> "down", item |-> None, called |-> <<>>]
    ELSE [l |-> [l EXCEPT !.acc = call2(s.func, l.acc, x)], dir |-> "down",
          item |-> None, called |-> <<l.acc, x>>]

\* a transform that fetches its first item when it is called
wrapper_primed(s, w) == [l |-> NewGen, w |-> [w EXCEPT !.pulled = w.pulled + 1]]

\* wrapper(items): the transforms are generator functions, so the call
\* returns a generator object and runs nothing of the body; w is what a
\* running body could touch, the source iterator and the stage functions
wrapper(s, w) == [l |-> NewGen, w |-> w]

RECURSIVE build(_, _)
\* result = op(result) for each transform of the chain
build(ops, w) ==
    IF ops = <<>> THEN [gens |-> <<>>, w |-> w]
    ELSE LET r == wrapper(Head(ops), w)
             b == build(Tail(ops), r.w)
         IN [gens |-> <<r.l>> \o b.gens, w |-> b.w]

chain_reversed(ops) == [i \in 1..Len(ops) |-> ops[Len(ops) + 1 - i]]

\* for op in operators: result = op(result): the generators, innermost first
chain(ops) == ops

\* operators == []
is_empty_list(operators_) == operators_.t = "list" /\ operators_.v = <<>>

\* the history variables stop growing at MaxLog entries
Log(l, x) == IF Len(l) < MaxLog THEN Append(l, x) ELSE l

Idle == [at |-> 0, dir |-> "idle", item |-> None]

Down(i) == [at |-> i, dir |-> "down", item |-> None]

Up(i, x) == [at |-> i, dir |-> "up", item |-> x]

\* no pipeline around
PipeIdle ==
    /\ source = <<>>
    /\ infinite = FALSE
    /\ operators = ListV(<<>>)
    /\ gen = "none"
    /\ stages = <<>>
    /\ gens = <<>>
    /\ src_pos = 0
    /\ pulled = 0
    /\ out = <<>>
    /\ calls = <<>>
    /\ frame = Idle
    /\ collecting = FALSE
    /\ pull_res = None
    /\ built = <<>>

----------------------------------------------------------------------------
(* callers of hw3 *)

\* no currying going on
CurryIdle ==
    /\ arity = 0
    /\ cargs = <<>>
    /\ curried = None
    /\ uncurried = None
    /\ stage = None
    /\ applied = 0
    /\ res_uncurried = None
    /\ res_wrong = None
    /\ call_log = <<>>
    /\ arglists = <<>>
    /\ held = <<>>

InitCommon ==
    /\ CurryIdle
    /\ PipeIdle
    /\ cache = EmptyDict
    /\ key_ord = <<>>
    /\ call_count = 0
    /\ eval_count = 0
    /\ heap = OriginalHeap
    /\ last = [args |-> <<>>, kwargs |-> <<>>, ret |-> None]
    /\ script = 0
    /\ declared = <<>>
    /\ ev_func = get_timestamp
    /\ stack = <<>>

\* @cache_func(maxsize=m) over a plain function or over @smart_args composed_func
Init ==
    /\ maxsize \in MaxsizeArgs
    /\ func \in {"fn", "composed_func"}
    /\ decorated = cache_func(func, maxsize)
    /\ pos_args = FALSE
    /\ InitCommon

\* one call of the decorated function by the test
Call(inp) ==
    /\ call_count < MaxCalls
    /\ eval_count < MaxCalls
    /\ LET w == World(call_count, eval_count, heap)
           st == [cache |-> cache, key_ord |-> key_ord, w |-> w]
           r == IF decorated = "wrapper"
                THEN cache_wrapper(func, maxsize, st, inp.args, inp.kwargs)
                ELSE LET d == CallFunc(decorated, w, inp.args, inp.kwargs)
                     IN [cache |-> cache, key_ord |-> key_ord, w |-> d.w, ret |-> d.ret]
       IN /\ cache' = r.cache
          /\ key_ord' = r.key_ord
          /\ call_count' = r.w.call_count
          /\ eval_count' = r.w.eval_count
          /\ heap' = Collect(r.w.heap, OriginalAddrs, r.ret)
          /\ last' = [args |-> inp.args, kwargs |-> inp.kwargs, ret |-> r.ret]
    /\ script' = NextScript(script, inp)
    /\ UNCHANGED <<maxsize, func, decorated, pos_args, declared, ev_func, stack>>
    /\ UNCHANGED <<curryVars, pipeVars>>

CallFn == \E inp \in FnInputs : func = "fn" /\ Call(inp)

CallComposed == \E inp \in ComposedInputs : func = "composed_func" /\ Call(inp)

Next == CallFn \/ CallComposed

Spec == Init /\ [][Next]_vars

\* @smart_args(pos_args=p) def process_data(...), called directly
InitSmart ==
    /\ maxsize = 0
    /\ func = "process_data"
    /\ decorated = "process_data"
    /\ pos_args \in BOOLEAN
    /\ InitCommon

CallSmart == \E inp \in SmartInputs : func = "process_data" /\ Call(inp)

NextSmart == CallSmart

SpecSmart == InitSmart /\ [][NextSmart]_vars

----------------------------------------------------------------------------
(* cache_func over a function that calls back into its own wrapper and *)
(* that may raise *)

MaxDepth == 2

\* calls of the wrapper: three hashable argument tuples and a list
NestedInputs ==
    { Input(<<IntV(1), IntV(2)>>, <<>>),
      Input(<<IntV(3), IntV(4)>>, <<>>),
      Input(<<IntV(5), IntV(6)>>, <<>>),
      Input(<<ListV(<<1, 2, 3>>)>>, <<>>) }

\* a wrapper call waiting for func(*args, **kwargs): its arguments, the
\* outcome of cache_keys, what the body will return if it returns, and
\* whether the body has called the wrapper
Frame(inp, k, ret) ==
    [args |-> inp.args, kwargs |-> inp.kwargs, k |-> k, ret |-> ret, nested |-> FALSE]

Top == stack[Len(stack)]

\* the stack with its innermost frame marked as having called the wrapper
Calling == IF stack = <<>> THEN stack ELSE [stack EXCEPT ![Len(stack)].nested = TRUE]

\* @cache_func(maxsize=m), m > 0, over such a function
InitNested ==
    /\ maxsize \in 1..MaxMaxsize
    /\ func = "fn"
    /\ decorated = cache_func(func, maxsize)
    /\ pos_args = FALSE
    /\ InitCommon

\* the wrapper is called, by the test or by the running body: a hit returns
\* at once, otherwise the body of func starts.  Here `last` is the latest
\* wrapper call that came back, at any depth, and whether its body had
\* called the wrapper
Enter ==
    /\ Len(stack) < MaxDepth
    /\ call_count < MaxCalls
    /\ \E inp \in NestedInputs :
          LET k == cache_keys(inp.args, inp.kwargs)
              w == World(call_count, eval_count, heap)
              st == [cache |-> cache, key_ord |-> key_ord, w |-> w]
          IN IF k.ok /\ in_cache(cache, k.key)
             THEN LET h == hit(st, k.key)
                  IN /\ cache' = h.cache
                     /\ key_ord' = h.key_ord
                     /\ stack' = Calling
                     /\ last' = [args |-> inp.args, kwargs |-> inp.kwargs, ret |-> h.ret,
                                 nested |-> FALSE]
                     /\ UNCHANGED call_count
             ELSE LET r == fn(w, inp.args, inp.kwargs)
                  IN /\ stack' = Append(Calling, Frame(inp, k, r.ret))
                     /\ call_count' = r.w.call_count
                     /\ UNCHANGED <<cache, key_ord, last>>
    /\ UNCHANGED <<maxsize, func, decorated, eval_count, heap, pos_args, script, declared,
                   ev_func>>
    /\ UNCHANGED <<curryVars, pipeVars>>

\* the innermost body comes back with `outcome`; the wrapper finishes and
\* hands its result to the body that called it or to the test
Leave(outcome) ==
    /\ stack # <<>>
    /\ LET w == World(call_count, eval_count, heap)
           st == [cache |-> cache, key_ord |-> key_ord, w |-> w]
           f == finish(maxsize, st, Top.k, [w |-> w, ret |-> outcome])
       IN /\ cache' = f.cache
          /\ key_ord' = f.key_ord
          /\ last' = [args |-> Top.args, kwargs |-> Top.kwargs, ret |-> f.ret,
                      nested |-> Top.nested]
    /\ stack' = SubSeq(stack, 1, Len(stack) - 1)
    /\ UNCHANGED <<maxsize, func, decorated, call_count, eval_count, heap, pos_args, script,
                   declared, ev_func>>
    /\ UNCHANGED <<curryVars, pipeVars>>

\* return <value>
Return == stack # <<>> /\ Leave(Top.ret)

\* raise ValueError(...)
Raise == stack # <<>> /\ Leave(Raised("ValueError"))

NextNested == Enter \/ Return \/ Raise

SpecNested == InitNested /\ [][NextNested]_vars

Kinds == {"POSITIONAL_ONLY", "POSITIONAL_OR_KEYWORD", "KEYWORD_ONLY"}

\* what the tests hand to Evaluated(...): a thunk, None, a number
EvaluatedArgs == {get_timestamp, None, IntV(42)}

\* the default expressions of the parameter: no default, a plain value, a
\* marker; f is the argument of the marker's constructor
Defaults(f) ==
    {Empty, IntV(3), Isolated, Evaluated_init(Evaluated, f), Evaluated_init(Both, f)}

\* @smart_args(pos_args=p) def bad_func(data=<default>) with data of each
\* kind: the default expression is evaluated, then the decorator runs
InitDecorate ==
    /\ pos_args \in BOOLEAN
    /\ func = "bad_func"
    /\ \E kind \in Kinds, f \in EvaluatedArgs : \E default \in Defaults(f) :
          IF IsRaise(default)
          THEN /\ declared = <<>>
               /\ ev_func = None
               /\ decorated = "ValueError"
          ELSE /\ declared = <<Param("data", kind, default)>>
               /\ ev_func = (IF is_eva(default) THEN f ELSE None)
               /\ decorated = smart_args(func, declared, pos_args)
    /\ maxsize = 0
    /\ cache = EmptyDict
    /\ key_ord = <<>>
    /\ call_count = 0
    /\ eval_count = 0
    /\ heap = OriginalHeap
    /\ last = [args |-> <<>>, kwargs |-> <<>>, ret |-> None]
    /\ script = 0
    /\ stack = <<>>
    /\ CurryIdle
    /\ PipeIdle

\* calls of bad_func: data omitted, positional, by keyword
DecoratedInputs ==
    {Input(<<>>, <<>>), Input(<<Ref(1)>>, <<>>), Input(<<>>, <<Kw("data", Ref(1))>>)}

CallDecorated == \E inp \in DecoratedInputs : decorated = "bad_func" /\ Call(inp)

NextDecorate == CallDecorated

SpecDecorate == InitDecorate /\ [][NextDecorate]_vars

MaxArity == 3

ArgValues == 1..3

RECURSIVE Tuples(_)
Tuples(n) ==
    IF n = 0 THEN {<<>>} ELSE {Append(t, x) : t \in Tuples(n - 1), x \in ArgValues}

\* no decorator around
DecoIdle ==
    /\ maxsize = 0
    /\ func = "fn"
    /\ decorated = "fn"
    /\ pos_args = FALSE
    /\ cache = EmptyDict
    /\ key_ord = <<>>
    /\ call_count = 0
    /\ eval_count = 0
    /\ heap = OriginalHeap
    /\ last = [args |-> <<>>, kwargs |-> <<>>, ret |-> None]
    /\ script = 0
    /\ declared = <<>>
    /\ ev_func = get_timestamp
    /\ stack = <<>>

\* curried = curry_explicit(f, N); uncurried = uncurry_explicit(curried, N)
InitCurry ==
    /\ arity \in 0..MaxArity
    /\ cargs \in Tuples(arity)
    /\ LET r == curry_explicit(arity, <<>>)
       IN /\ curried = r.ret
          /\ call_log = r.n
    /\ uncurried = uncurry_explicit(curried, arity)
    /\ stage = curried
    /\ applied = 0
    /\ res_uncurried = None
    /\ res_wrong = None
    /\ arglists = <<>>
    /\ held = <<>>
    /\ PipeIdle
    /\ DecoIdle

\* the chain curried(a1)...(aN) has been applied to the end; for arity 0
\* that is the one call curried()
ChainComplete == IF arity = 0 THEN applied = 1 ELSE applied = arity

\* the next application of the nested chain: stage = stage(a_k)
ApplyNext ==
    /\ ~ChainComplete
    /\ LET r == Apply(stage, IF arity = 0 THEN <<>> ELSE <<cargs[applied + 1]>>,
                      arity, call_log)
       IN /\ stage' = r.ret
          /\ call_log' = r.n
    /\ applied' = applied + 1
    /\ UNCHANGED <<arity, cargs, curried, uncurried, res_uncurried, res_wrong, arglists, held>>
    /\ UNCHANGED <<decoVars, pipeVars>>

\* uncurried(*cargs)
CallUncurried ==
    /\ res_uncurried = None
    /\ LET r == Apply(uncurried, cargs, arity, call_log)
       IN /\ res_uncurried' = r.ret
          /\ call_log' = r.n
    /\ UNCHANGED <<arity, cargs, curried, uncurried, stage, applied, res_wrong, arglists, held>>
    /\ UNCHANGED <<decoVars, pipeVars>>

\* uncurried(*args) with a number of arguments other than the arity, as
\* test_uncurry_arity_mismatch calls it
CallWrong ==
    /\ arity > 0
    /\ res_wrong = None
    /\ \E k \in (0..MaxArity + 1) \ {arity} : \E args \in Tuples(k) :
          LET r == Apply(uncurried, args, arity, call_log)
          IN /\ res_wrong' = r.ret
             /\ call_log' = r.n
    /\ UNCHANGED <<arity, cargs, curried, uncurried, stage, applied, res_uncurried, arglists, held>>
    /\ UNCHANGED <<decoVars, pipeVars>>

NextCurry == ApplyNext \/ CallUncurried \/ CallWrong

SpecCurry == InitCurry /\ [][NextCurry]_vars

----------------------------------------------------------------------------
(* a curried chain whose stages the caller keeps and applies again *)

MaxHeld == 5

\* a stage or a result the caller keeps, with the arguments given on the way
\* to it from the curried function
Held(val, path) == [val |-> val, path |-> path]

\* curried = curry_explicit(f, N), N > 0: return curry([])
InitBranch ==
    /\ arity \in 1..MaxArity
    /\ LET r == curry_cell(<<<<>>>>, 1, arity, <<>>)
       IN /\ arglists = r.h
          /\ held = <<Held(r.ret, <<>>)>>
          /\ call_log = r.n
    /\ cargs = <<>>
    /\ curried = None
    /\ uncurried = None
    /\ stage = None
    /\ applied = 0
    /\ res_uncurried = None
    /\ res_wrong = None
    /\ PipeIdle
    /\ DecoIdle

\* s(x) for any stage s the caller keeps and any argument x; the caller
\* keeps what it returns too
ApplyStage ==
    /\ Len(held) < MaxHeld
    /\ \E i \in DOMAIN held : \E x \in ArgValues :
          /\ held[i].val.t = "stage"
          /\ LET r == apply_stage(arglists, held[i].val.v, x, arity, call_log)
             IN /\ arglists' = r.h
                /\ held' = Append(held, Held(r.ret, Append(held[i].path, x)))
                /\ call_log' = r.n
    /\ UNCHANGED <<arity, cargs, curried, uncurried, stage, applied, res_uncurried, res_wrong>>
    /\ UNCHANGED <<decoVars, pipeVars>>

NextBranch == ApplyStage

SpecBranch == InitBranch /\ [][NextBranch]_vars

----------------------------------------------------------------------------
(* callers of hw2/generators.py *)

Items == -1..1

Sources == UNION {[1..n -> Items] : n \in 0..MaxLen}

Positive == as_func("filter", <<>>, None, positive)

Square == as_func("map", <<>>, square, None)

Double == as_func("map", <<>>, double, None)

Summer == as_func("reduce", <<>>, add, None)

SummerFrom0 == as_func("reduce", <<IntV(0)>>, add, None)

Product == as_func("reduce", <<>>, mul, None)

\* pipelines that keep no running total other than a product of Items
Streaming ==
    {<<Positive, Square>>, <<Square, Positive>>, <<Double>>, <<Double, Square>>,
     <<Positive>>, <<Product>>}

\* the operator lists run here; zip and custom operators are constructed
\* by as_func but not run
Pipelines == Streaming \union {<<Positive, Double, Summer>>, <<SummerFrom0>>, <<>>}

EmptyTuple == [t |-> "tuple", v |-> <<>>]

\* the source is a list, or a generator that repeats the list for ever
InitPipe ==
    /\ source \in Sources
    /\ infinite \in BOOLEAN
    /\ operators \in {ListV(p) : p \in Pipelines} \union {EmptyTuple}
    /\ infinite => source # <<>> /\ operators.v \in Streaming
    /\ gen = "none"
    /\ stages = <<>>
    /\ gens = <<>>
    /\ src_pos = 0
    /\ pulled = 0
    /\ out = <<>>
    /\ calls = <<>>
    /\ frame = Idle
    /\ collecting = FALSE
    /\ pull_res = None
    /\ built = <<>>
    /\ DecoIdle
    /\ CurryIdle

plumbing == <<source, infinite, operators, built>>

\* what a running generator body could touch
Upstream == [src_pos |-> src_pos, pulled |-> pulled, calls |-> calls]

\* gen = pipe(source, operators): a generator object; its body has not run
CallPipe ==
    /\ gen = "none"
    /\ gen' = "created"
    /\ UNCHANGED <<stages, gens, src_pos, pulled, out, calls, frame, collecting, pull_res>>
    /\ UNCHANGED <<plumbing, decoVars, curryVars>>

\* gen = transform(source) for a single transform, without pipe
CallTransform ==
    /\ gen = "none"
    /\ Len(operators.v) = 1
    /\ gen' = "running"
    /\ stages' = operators.v
    /\ LET r == wrapper(operators.v[1], Upstream)
       IN /\ gens' = <<r.l>>
          /\ src_pos' = r.w.src_pos
          /\ pulled' = r.w.pulled
          /\ calls' = r.w.calls
    /\ UNCHANGED <<out, frame, collecting, pull_res>>
    /\ UNCHANGED <<plumbing, decoVars, curryVars>>

\* next(gen) begins.  The first next() of a pipe generator runs pipe's body
\* up to its yield from: the empty check, then result = op(result) for each
\* operator, which creates the transforms' generators
Pull(collect_) ==
    /\ frame = Idle
    /\ gen \in {"created", "running"}
    /\ IF gen = "created" /\ is_empty_list(operators)
       THEN /\ gen' = "raised"
            /\ pull_res' = Raised("ValueError")
            /\ UNCHANGED <<stages, gens, frame, collecting, src_pos, pulled, calls>>
       ELSE /\ gen' = "running"
            /\ IF gen = "created"
               THEN LET b == build(chain(operators.v), Upstream)
                    IN /\ stages' = chain(operators.v)
                       /\ gens' = b.gens
                       /\ src_pos' = b.w.src_pos
                       /\ pulled' = b.w.pulled
                       /\ calls' = b.w.calls
               ELSE UNCHANGED <<stages, gens, src_pos, pulled, calls>>
            /\ frame' = Down(Len(stages'))
            /\ collecting' = collect_
            /\ UNCHANGED pull_res
    /\ UNCHANGED out
    /\ UNCHANGED <<plumbing, decoVars, curryVars>>

\* next(gen)
NextItem == Len(out) < MaxOut /\ Pull(FALSE)

\* collect(gen): list(gen)
CallCollect == ~infinite /\ Pull(TRUE)

\* the source iterator is asked for its next item
SourceNext ==
    /\ frame.dir = "down" /\ frame.at = 0
    /\ IF infinite \/ src_pos < Len(source)
       THEN /\ frame' = Up(1, IntV(source[src_pos + 1]))
            /\ src_pos' = IF infinite THEN (src_pos + 1) % Len(source) ELSE src_pos + 1
            /\ pulled' = IF pulled < MaxLog THEN pulled + 1 ELSE pulled
       ELSE /\ frame' = Up(1, Stop)
            /\ UNCHANGED <<src_pos, pulled>>
    /\ UNCHANGED <<gen, stages, gens, out, calls, collecting, pull_res>>
    /\ UNCHANGED <<plumbing, decoVars, curryVars>>

\* the generator of stage frame.at is resumed
Resume ==
    /\ frame.dir = "down" /\ frame.at > 0
    /\ LET r == resume(stages[frame.at], gens[frame.at])
       IN /\ gens' = [gens EXCEPT ![frame.at] = r.l]
          /\ frame' = IF r.dir = "down" THEN Down(frame.at - 1)
                      ELSE Up(frame.at + 1, r.item)
    /\ UNCHANGED <<gen, stages, src_pos, pulled, out, calls, collecting, pull_res>>
    /\ UNCHANGED <<plumbing, decoVars, curryVars>>

\* the generator of stage frame.at gets what its upstream returned
Receive ==
    /\ frame.dir = "up" /\ frame.at <= Len(stages)
    /\ LET r == receive(stages[frame.at], gens[frame.at], frame.item)
       IN /\ gens' = [gens EXCEPT ![frame.at] = r.l]
          /\ calls' = IF r.called = <<>> THEN calls
                      ELSE Log(calls, [stage |-> frame.at, args |-> r.called])
          /\ frame' = IF r.dir = "down" THEN Down(frame.at - 1)
                      ELSE Up(frame.at + 1, r.item)
    /\ UNCHANGED <<gen, stages, src_pos, pulled, out, collecting, pull_res>>
    /\ UNCHANGED <<plumbing, decoVars, curryVars>>

\* next(gen) returns to the consumer: an item, StopIteration or an
\* exception; list(gen) goes on to the next item
Deliver ==
    /\ frame.dir = "up" /\ frame.at = Len(stages) + 1
    /\ pull_res' = frame.item
    /\ IF frame.item.t \in {"StopIteration", "raise"}
       THEN /\ gen' = IF IsRaise(frame.item) THEN "raised" ELSE "done"
            /\ collecting' = FALSE
            /\ frame' = Idle
            /\ UNCHANGED out
       ELSE /\ out' = Append(out, frame.item)
            /\ frame' = IF collecting THEN Down(Len(stages)) ELSE Idle
            /\ UNCHANGED <<gen, collecting>>
    /\ UNCHANGED <<stages, gens, src_pos, pulled, calls>>
    /\ UNCHANGED <<plumbing, decoVars, curryVars>>

Step == SourceNext \/ Resume \/ Receive \/ Deliver

NextPipe == CallPipe \/ CallTransform \/ NextItem \/ CallCollect \/ Step

SpecPipe == InitPipe /\ [][NextPipe]_vars

\* a next() call that has started keeps running until it returns
SpecPipeFair == SpecPipe /\ WF_vars(Step)

----------------------------------------------------------------------------
(* the constructing calls: curry_explicit, uncurry_explicit, as_func *)

MaxBuilt == 2

\* arities handed to curry_explicit and uncurry_explicit, test_negative_arity's
\* -1 among them
ArityArgs == -1..MaxArity

\* a constructing call and what it returned or raised
Built(fn_, operator, args, func_, pred, ar, ret) ==
    [fn |-> fn_, operator |-> operator, args |-> args, func |-> func_, pred |-> pred,
     arity |-> ar, ret |-> ret]

\* curry_explicit(f, a) or uncurry_explicit(f, a)
ConstructCurry ==
    /\ Len(built) < MaxBuilt
    /\ \E ar \in ArityArgs :
          \/ LET r == curry_explicit(ar, call_log)
             IN /\ built' = Append(built, Built("curry_explicit", "", <<>>, Func, None, ar, r.ret))
                /\ call_log' = r.n
          \/ /\ built' = Append(built, Built("uncurry_explicit", "", <<>>, Func, None, ar,
                                              uncurry_explicit(Func, ar)))
             /\ UNCHANGED call_log
    /\ UNCHANGED <<arity, cargs, curried, uncurried, stage, applied, res_uncurried, res_wrong,
                   arglists, held>>
    /\ UNCHANGED <<source, infinite, operators, gen, stages, gens, src_pos, pulled, out,
                   calls, frame, collecting, pull_res>>
    /\ UNCHANGED decoVars

\* as_func(operator, *args, func=f, pred=p)
ConstructTransform ==
    /\ Len(built) < MaxBuilt
    /\ \E operator \in {"map", "filter", "zip", "reduce", "custom_take_while"},
          args \in {<<>>, <<IntV(0)>>, <<IntV(1), IntV(2)>>},
          f \in {None, add}, pr \in {None, positive} :
          built' = Append(built, Built("as_func", operator, args, f, pr, 0,
                                       as_func(operator, args, f, pr)))
    /\ UNCHANGED <<source, infinite, operators, gen, stages, gens, src_pos, pulled, out,
                   calls, frame, collecting, pull_res>>
    /\ UNCHANGED <<decoVars, curryVars>>

InitConstruct == DecoIdle /\ CurryIdle /\ PipeIdle

NextConstruct == ConstructCurry \/ ConstructTransform

SpecConstruct == InitConstruct /\ [][NextConstruct]_vars

----------------------------------------------------------------------------
(* Vocabulary of the properties: what a call is, read off the arguments and *)
(* the stored entries rather than off cache_keys                           *)

Caching == decorated = "wrapper"

\* some argument of the call is a list
Unhashable(c) ==
    \/ \E i \in DOMAIN c.args : c.args[i].t = "list"
    \/ \E i \in DOMAIN c.kwargs : c.kwargs[i][2].t = "list"

\* entry k was stored by a call with c's positional arguments and c's
\* keyword names and values, in whatever keyword order
SameCall(k, c) ==
    /\ k[1] = c.args
    /\ Len(k) = Len(c.kwargs) + 1
    /\ Range(Tail(k)) = Range(c.kwargs)

CachedIn(c0, c) == \E k \in DOMAIN c0 : SameCall(k, c)

EntryOf(c0, c) == CHOOSE k \in DOMAIN c0 : SameCall(k, c)

\* ordinal of the fn invocation that produced a stored result
Ordinal(r) == r.v[2]

Oldest(c0, k) == \A k2 \in DOMAIN c0 : Ordinal(c0[k]) <= Ordinal(c0[k2])

\* the step is a miss of the cached plain function
MissStep == Caching /\ func = "fn" /\ ~Unhashable(last') /\ ~CachedIn(cache, last')

\* the step is a call whose key is cached
HitStep == Caching /\ ~Unhashable(last') /\ CachedIn(cache, last')

C1MissEffect ==
    MissStep =>
        /\ call_count' = call_count + 1
        /\ last'.ret.t = "res" /\ Ordinal(last'.ret) = call_count'
        /\ \E k \in DOMAIN cache' \ DOMAIN cache :
            /\ SameCall(k, last')
            /\ cache'[k] = last'.ret
            /\ key_ord'[Len(key_ord')] = k
            /\ IF Cardinality(DOMAIN cache) + 1 > maxsize
               THEN \E victim \in DOMAIN cache :
                      /\ Oldest(cache, victim)
                      /\ DOMAIN cache' = (DOMAIN cache \cup {k}) \ {victim}
                      /\ key_ord' = Tail(Append(key_ord, k))
               ELSE /\ DOMAIN cache' = DOMAIN cache \cup {k}
                    /\ key_ord' = Append(key_ord, k)
            /\ \A k2 \in DOMAIN cache \cap DOMAIN cache' : cache'[k2] = cache[k2]

C1Script ==
    (maxsize = 2 /\ func = "fn") =>
        /\ script = 2 => call_count = 1
        /\ script = Len(FifoScript) => call_count = 4

\* C1: with maxsize = N > 0 a miss invokes fn once, stores the result under a
\* new key put at the tail of the eviction queue, and when that makes more
\* than N entries exactly one entry goes: the one stored earliest among those
\* cached; with maxsize = 2 the calls f(1,2) f(1,2) f(3,4) f(5,6) f(1,2)
\* invoke fn exactly 4 times.
C1_FifoEviction == [][C1MissEffect]_vars /\ [](C1Script)

C1_Witness == maxsize = 2 /\ func = "fn" /\ script = Len(FifoScript) /\ call_count = 4

\* the latest call was answered from the cache: its result is a stored one
\* made by an earlier invocation
LastWasHit ==
    /\ Caching /\ func = "fn" /\ CachedIn(cache, last)
    /\ last.ret = cache[EntryOf(cache, last)]
    /\ Ordinal(last.ret) < call_count

C2HitFrame == HitStep => (cache' = cache /\ key_ord' = key_ord)

C2AfterHit ==
    (LastWasHit /\ Oldest(cache, EntryOf(cache, last)) /\ MissStep
       /\ Cardinality(DOMAIN cache) = maxsize)
    => /\ EntryOf(cache, last) \notin DOMAIN cache'
       /\ \A k \in DOMAIN cache \ {EntryOf(cache, last)} : k \in DOMAIN cache'

\* C2: a hit changes neither the entry table nor the eviction order, and a
\* hit on the oldest key does not save it: the next miss on a full cache
\* evicts that key and keeps every other one (FIFO, not LRU).
C2_HitKeepsOrder == [][C2HitFrame /\ C2AfterHit]_vars

C2_Witness ==
    /\ maxsize = 2 /\ LastWasHit /\ Len(key_ord) = 2
    /\ SameCall(Head(key_ord), last)
    /\ call_count = 2

C3HitEffect ==
    HitStep =>
        /\ last'.ret = cache[EntryOf(cache, last')]
        /\ call_count' = call_count
        /\ eval_count' = eval_count

\* C3: a call whose canonical key is cached returns the stored value and
\* invokes nothing, so while a key stays cached the invocation that stored
\* it is the only one made for it.
C3_HitReturnsStored == [][C3HitEffect]_vars

C3_Witness == LastWasHit /\ call_count > Ordinal(last.ret) + 1

\* the call left parameter `name` out
Omitted(c, sig, name) ==
    /\ name \notin KwGiven(c.kwargs)
    /\ \A i \in 1..Len(c.args) : i > Len(PosParams(sig)) \/ PosParams(sig)[i].name # name

ComposedStep == Caching /\ func = "composed_func"

ComposedSig == signature("composed_func")

C4Claim ==
    ComposedStep =>
        /\ CachedIn(cache, last') =>
              /\ eval_count' = eval_count /\ call_count' = call_count
              /\ last'.ret = cache[EntryOf(cache, last')]
        /\ (~CachedIn(cache, last') /\ Omitted(last', ComposedSig, "x")) =>
              /\ eval_count' = eval_count + 1 /\ call_count' = call_count + 1
        /\ (~CachedIn(cache, last') /\ ~Omitted(last', ComposedSig, "x")) =>
              /\ eval_count' = eval_count /\ call_count' = call_count + 1
              /\ last'.ret = KwItem(last'.kwargs, "x")
        /\ ~Omitted(last', ComposedSig, "x") =>
              \A k \in DOMAIN cache' : SameCall(k, last') => ~SameCall(k, Input(<<>>, <<>>))

\* C4: under cache_func over smart_args, calls that omit the Evaluated
\* parameter run the thunk and the body once while the key stays cached (a
\* hit runs neither); a call that supplies the parameter has another key,
\* runs the body once and does not run the thunk.
C4_ComposedShortCircuit == [][C4Claim]_vars

\* the same with the one supplied value set apart that the binder takes for
\* "left out": the parameter's own Evaluated instance
C4ExceptMarker ==
    ComposedStep =>
        /\ CachedIn(cache, last') =>
              /\ eval_count' = eval_count /\ call_count' = call_count
        /\ (~CachedIn(cache, last') /\ Omitted(last', ComposedSig, "x")) =>
              /\ eval_count' = eval_count + 1 /\ call_count' = call_count + 1
        /\ (/\ ~CachedIn(cache, last') /\ ~Omitted(last', ComposedSig, "x")
            /\ KwItem(last'.kwargs, "x") # Evaluated) =>
              /\ eval_count' = eval_count /\ call_count' = call_count + 1

C4_ShortCircuitExceptMarker == [][C4ExceptMarker]_vars

SmartSig == signature("process_data")

\* the call binds: no parameter given twice, none unknown, not too many
WellFormed(c, sig) == bind(sig, c.args, c.kwargs).ok

\* the value the call gave for parameter number i called `name`
Given(c, i, name) ==
    IF Len(c.args) >= i THEN c.args[i] ELSE KwItem(c.kwargs, name)

\* the value the body found in its timestamp parameter, where it kept it
Received(h, r) == h[r.v]["timestamp"]

C5Claim ==
    (func = "process_data" /\ WellFormed(last', SmartSig)) =>
        IF Omitted(last', SmartSig, "timestamp")
        THEN /\ eval_count' = eval_count + 1
             /\ last'.ret.t = "ref" => Received(heap', last'.ret) = IntV(100 + eval_count')
        ELSE /\ eval_count' = eval_count
             /\ last'.ret.t = "ref" =>
                    Received(heap', last'.ret) = Given(last', 2, "timestamp")

\* C5: per call the thunk of an Evaluated parameter runs exactly once when
\* the caller left the parameter out and not at all when the caller supplied
\* it; nothing is remembered, each call that leaves it out gets the value of
\* its own evaluation.
C5_ThunkOncePerOmittingCall == [][C5Claim]_vars

C5ExceptMarker ==
    (func = "process_data" /\ WellFormed(last', SmartSig)) =>
        IF Omitted(last', SmartSig, "timestamp")
              \/ Given(last', 2, "timestamp") = Evaluated
        THEN /\ eval_count' = eval_count + 1
             /\ last'.ret.t = "ref" => Received(heap', last'.ret) = IntV(100 + eval_count')
        ELSE /\ eval_count' = eval_count
             /\ last'.ret.t = "ref" =>
                    Received(heap', last'.ret) = Given(last', 2, "timestamp")

C5_ThunkExceptMarker == [][C5ExceptMarker]_vars

\* the objects a returned dict is made of
ResultObjects == IF last.ret.t = "ref" THEN Reach(heap, {last.ret.v}) ELSE {}

\* C6: whatever the body writes into the value of an Isolated parameter, at
\* any depth, the caller's own objects stay as they were, call after call,
\* and what the body returns shares no object with them.
C6_IsolatedKeepsOriginal ==
    func = "process_data" =>
        /\ \A a \in OriginalAddrs : a \in DOMAIN heap /\ heap[a] = OriginalHeap[a]
        /\ ResultObjects \cap OriginalAddrs = {}

C6_Witness ==
    /\ func = "process_data" /\ pos_args /\ call_count >= 2
    /\ last.args = <<Ref(1)>> /\ last.ret.t = "ref"
    /\ heap[last.ret.v]["processed"] = IntV(1)
    /\ heap[heap[heap[last.ret.v]["nested"].v]["deep"].v]["value"] = IntV(999)

\* the keyword names of a call in the order given
KwOrder(c) == [i \in DOMAIN c.kwargs |-> c.kwargs[i][1]]

C7ReorderedHit ==
    (Caching /\ func = "fn") =>
        \A k \in DOMAIN cache :
            (SameCall(k, last') /\ cache[k].v[3] # KwOrder(last')) =>
                /\ call_count' = call_count
                /\ last'.ret = cache[k]
                /\ cache' = cache

C7OneEntry ==
    \A k1, k2 \in DOMAIN cache :
        (k1[1] = k2[1] /\ Range(Tail(k1)) = Range(Tail(k2))) => k1 = k2

\* C7: a call that gives the same positional arguments and the same keyword
\* names and values as a cached call, in another keyword order, is a hit on
\* that call's entry: fn is not invoked and the two orders share one entry.
C7_KeywordOrderIrrelevant == [][C7ReorderedHit]_vars /\ [](C7OneEntry)

C7_Witness ==
    /\ Caching /\ func = "fn"
    /\ KwOrder(last) = <<"b", "a">>
    /\ last.ret.t = "res" /\ last.ret.v[3] = <<"a", "b">>

C8Bypass ==
    (Caching /\ func = "fn" /\ Unhashable(last')) =>
        /\ call_count' = call_count + 1
        /\ last'.ret = [t |-> "res",
                        v |-> <<ArgSum(last'.args) + ArgSum(KwValues(last'.kwargs)),
                                call_count + 1, KwOrder(last')>>]
        /\ cache' = cache
        /\ key_ord' = key_ord

\* C8: a call with an unhashable argument goes straight to fn with the
\* arguments as given and returns fn's result; no error of the wrapper
\* reaches the caller, the entry table and the eviction queue stay as they
\* are, so every such call invokes fn.
C8_UnhashableBypasses == [][C8Bypass]_vars

C8_Witness ==
    /\ Caching /\ func = "fn" /\ Unhashable(last)
    /\ last.ret.t = "res" /\ Ordinal(last.ret) = call_count
    /\ call_count >= 2 /\ cache # EmptyDict

C9NoState == maxsize <= 0 => (decorated = func /\ cache = EmptyDict /\ key_ord = <<>>)

C9EveryCallInvokes ==
    (maxsize <= 0 /\ func \in {"fn", "composed_func"}) =>
        /\ call_count' = call_count + 1
        /\ func = "fn" => Ordinal(last'.ret) = call_count'

\* C9: with maxsize <= 0 cache_func hands back the function it was given:
\* there is no wrapper and nothing is ever stored, and every call, repeated
\* arguments included, invokes the function.
C9_NonPositiveMaxsizeDisables == [](C9NoState) /\ [][C9EveryCallInvokes]_vars

C9_Witness ==
    /\ maxsize <= 0 /\ func = "fn" /\ script = 2 /\ call_count = 2
    /\ Ordinal(last.ret) = 2

\* C10: for every arity N >= 0 and every N arguments, the uncurried curried
\* function called with them at once returns what fn returns for them, and
\* so does the nested application curried(a1)...(aN).
C10_CurryUncurryRoundTrip ==
    /\ res_uncurried # None => res_uncurried = target(arity, cargs, <<>>).ret
    /\ (curried # None /\ ChainComplete) => stage = target(arity, cargs, <<>>).ret

C10_Witness ==
    /\ arity = MaxArity /\ ChainComplete
    /\ cargs[1] # cargs[2]
    /\ res_uncurried = stage /\ stage.t = "int"

\* the number of arguments a raised arity-mismatch error names as expected
ExpectedCount(r) == IF "expected" \in DOMAIN r THEN r.expected ELSE -1

\* C11: curry_explicit(fn, n) does not run fn at curry time (for n = 0 it
\* returns fn itself), an application of the chain before the n-th leaves fn
\* unrun and returns a callable, and the n-th application runs fn exactly
\* once, with the n arguments in application order, and returns fn's result
\* itself.
C11_TargetRunsOnceAtLastApplication ==
    /\ [](arity = 0 => curried = Func)
    /\ []((applied = 0 /\ res_uncurried = None /\ res_wrong.t = "None")
            => call_log = <<>>)
    /\ [][applied' = applied + 1 =>
            IF applied' < arity
            THEN call_log' = call_log /\ stage'.t = "curried"
            ELSE /\ call_log' = Append(call_log, cargs)
                 /\ stage' = target(arity, cargs, <<>>).ret]_vars

C11_Witness ==
    /\ arity = MaxArity /\ ChainComplete
    /\ res_uncurried = None
    /\ call_log = <<cargs>>
    /\ cargs[1] # cargs[arity]

\* C12: the callable uncurry_explicit(c, n) returns, n > 0, called with a
\* number of arguments other than n raises an error naming n as the expected
\* count and runs nothing of c's chain; called afterwards with exactly n
\* arguments it returns c(a1)...(an).
C12_WrongCountRaisesWithoutApplying ==
    /\ [](res_wrong.t # "None"
            => res_wrong.t = "raise" /\ ExpectedCount(res_wrong) = arity)
    /\ [][(res_wrong.t = "None" /\ res_wrong'.t # "None")
            => call_log' = call_log]_vars
    /\ [][(res_wrong.t # "None" /\ res_uncurried = None /\ res_uncurried' # None)
            => res_uncurried' = target(arity, cargs, <<>>).ret]_vars

C12_Witness ==
    /\ arity > 1
    /\ res_wrong.t = "raise" /\ res_wrong.got > arity
    /\ res_uncurried.t = "int"
    /\ call_log = <<cargs>>

----------------------------------------------------------------------------
(* hw2/generators.py: what the claims speak of *)

\* the first k items the source hands out
SourceItems(k) == [i \in 1..k |-> IntV(source[((i - 1) % Len(source)) + 1])]

MapFilterOnly(ops) == \A i \in 1..Len(ops) : ops[i].op \in {"map", "filter"}

MapOnly(ops) == \A i \in 1..Len(ops) : ops[i].op = "map"

RECURSIVE Comprehension(_, _, _)
\* [f(x) for x in xs if p(x)]
Comprehension(f, p, xs) ==
    IF xs = <<>> THEN <<>>
    ELSE IF Truthy(call1(p, Head(xs)))
    THEN <<call1(f, Head(xs))>> \o Comprehension(f, p, Tail(xs))
    ELSE Comprehension(f, p, Tail(xs))

RECURSIVE StageList(_, _)
\* list(map(f, xs)) or list(filter(p, xs))
StageList(s, xs) ==
    IF xs = <<>> THEN <<>>
    ELSE IF s.op = "map" THEN <<call1(s.func, Head(xs))>> \o StageList(s, Tail(xs))
    ELSE IF Truthy(call1(s.func, Head(xs))) THEN <<Head(xs)>> \o StageList(s, Tail(xs))
    ELSE StageList(s, Tail(xs))

RECURSIVE Through(_, _)
\* the list xs taken through the operators one whole list at a time, the
\* first operator first
Through(ops, xs) ==
    IF ops = <<>> THEN xs ELSE Through(Tail(ops), StageList(Head(ops), xs))

RECURSIVE TraceItem(_, _, _)
\* the stage function calls one item causes on its way up from stage i
TraceItem(ops, i, x) ==
    IF i > Len(ops) THEN <<>>
    ELSE <<[stage |-> i, args |-> <<x>>]>> \o
         (IF ops[i].op = "map" THEN TraceItem(ops, i + 1, call1(ops[i].func, x))
          ELSE IF Truthy(call1(ops[i].func, x)) THEN TraceItem(ops, i + 1, x)
          ELSE <<>>)

RECURSIVE TraceItems(_, _)
\* the calls of the first item, then those of the second, and so on
TraceItems(ops, xs) ==
    IF xs = <<>> THEN <<>> ELSE TraceItem(ops, 1, Head(xs)) \o TraceItems(ops, Tail(xs))

\* no next() call is under way beyond its first instruction
AtRest == frame.dir = "idle" \/ frame = Down(Len(stages))

\* the history variables have not reached their cap
Exact == pulled < MaxLog /\ Len(calls) < MaxLog

\* over one round of a repeating source the pipeline yields something
Yields ==
    /\ MapFilterOnly(operators.v)
    /\ Through(operators.v, SourceItems(Len(source))) # <<>>

\* C13: a finite sequence consumed to its end through pipe (or a single
\* transform) over map and filter stages gives what the stages, applied in
\* the order listed, give of the whole list; for [filter p, map f] that is
\* [f(x) for x in seq if p(x)].
C13_PipeLeftToRight ==
    (~infinite /\ gen = "done" /\ MapFilterOnly(operators.v)) =>
        /\ out = Through(operators.v, SourceItems(Len(source)))
        /\ operators.v = <<Positive, Square>> =>
               out = Comprehension(square, positive, SourceItems(Len(source)))

C13_Witness ==
    /\ gen = "done" /\ ~infinite
    /\ operators.v = <<Positive, Square>>
    /\ source = <<1, -1, 1>>
    /\ Len(out) = 2

\* C14: pipe called with an empty operator sequence raises at the call:
\* no generator is ever returned for it.
C14_EmptyPipelineRaisesAtCall ==
    (operators.v = <<>> /\ gen # "none") => gen = "raised"

\* C15: calling pipe, calling a transform, and pipe's own chaining of the
\* transforms pull no item from the source and run no stage function; the
\* source advances and stage functions run only inside a next() call.
C15_BuildingIsDeferred ==
    /\ [][(gen = "none" /\ gen' # "none")
            => (pulled' = pulled /\ calls' = calls /\ src_pos' = src_pos)]_vars
    /\ [][(pulled' # pulled \/ calls' # calls \/ src_pos' # src_pos)
            => frame.dir # "idle"]_vars

C15_Witness ==
    /\ gen = "running" /\ frame = Idle
    /\ gens = <<NewGen>>
    /\ Len(source) = MaxLen
    /\ pulled = 0 /\ calls = <<>>

\* C16: whenever the consumer of a running map/filter pipeline holds k
\* outputs, the source has handed out exactly the items up to the one that
\* produced the k-th output (k items for maps only), and the stage functions
\* have run item by item: all calls for one item before any for the next.
C16_PullBased ==
    (gen = "running" /\ AtRest /\ Exact /\ MapFilterOnly(stages)) =>
        /\ MapOnly(stages) => pulled = Len(out)
        /\ out = Through(stages, SourceItems(pulled))
        /\ pulled > 0 => Len(Through(stages, SourceItems(pulled - 1))) < Len(out)
        /\ calls = TraceItems(stages, SourceItems(pulled))

C16_Witness ==
    /\ gen = "running" /\ frame = Idle
    /\ stages = <<Positive, Square>>
    /\ Len(out) = 1 /\ pulled = 2 /\ Len(source) = MaxLen
    /\ ~infinite

\* C17 as stated: a single next() on a pipeline or transform returns after
\* finitely many steps, whatever the stages and also over an infinite source.
C17_SinglePullReturns ==
    (frame.dir # "idle" /\ ~collecting) ~> frame.dir = "idle"

\* C17: a single next() returns after finitely many steps over a finite
\* source, and over an infinite one when the stages are maps and filters some
\* of whose items pass; a reduce stage drains its input before it yields, so
\* over an infinite source its next() never returns, and neither does that
\* of a filter no item passes.
C17_PullReturnsUnlessDrained ==
    /\ (frame.dir # "idle" /\ ~collecting /\ (infinite => Yields))
           ~> frame.dir = "idle"
    /\ [][(infinite /\ ~Yields /\ frame.dir # "idle") => frame'.dir # "idle"]_vars

C17_Witness ==
    /\ infinite /\ Yields
    /\ \E i \in 1..Len(stages) : stages[i].op = "filter"
    /\ frame = Idle
    /\ Len(out) = MaxOut
    /\ pulled > Len(source)

----------------------------------------------------------------------------
(* smart_args at decoration time *)

\* the parameter's default is a marker
Marked(p) == is_iso(p.default) \/ is_eva(p.default)

C19_EvaluatedHoldsCallable ==
    \A i \in DOMAIN declared :
        (is_eva(declared[i].default) /\ decorated = func) => ev_func.t = "function"

----------------------------------------------------------------------------
(* construction-time errors *)

\* the constructing call was handed something it must reject
Misuse(b) ==
    \/ b.fn \in {"curry_explicit", "uncurry_explicit"} /\ b.arity < 0
    \/ b.fn = "as_func" /\ b.operator = "map" /\ b.func = None
    \/ b.fn = "as_func" /\ b.operator = "filter" /\ b.func = None /\ b.pred = None
    \/ b.fn = "as_func" /\ b.operator = "reduce" /\ b.func = None
    \/ b.fn = "as_func" /\ b.operator = "reduce" /\ Len(b.args) > 1

\* C20: curry_explicit and uncurry_explicit with a negative arity, and
\* as_func for map without func, filter with neither func nor pred, reduce
\* without func or with more than one extra positional argument, raise
\* ValueError from the constructing call itself: no callable is returned, no
\* user function has run and no input sequence has been touched.
C20_ConstructionTimeErrors ==
    /\ \A i \in DOMAIN built :
           Misuse(built[i]) => built[i].ret = Raised("ValueError")
    /\ call_log = <<>> /\ calls = <<>> /\ pulled = 0 /\ src_pos = 0

C20_Witness ==
    /\ Len(built) = MaxBuilt
    /\ built[1].fn = "curry_explicit" /\ built[1].arity < 0
    /\ built[1].ret = Raised("ValueError")
    /\ built[2].fn = "as_func" /\ built[2].operator = "reduce" /\ Len(built[2].args) > 1
    /\ built[2].func # None
    /\ built[2].ret = Raised("ValueError")

----------------------------------------------------------------------------
(* cache_func: the table and the queue *)

\* the keys of the eviction queue
Queued == {key_ord[i] : i \in DOMAIN key_ord}

\* the latest wrapper call came back with the body's own exception
BodyRaised(l) == IsRaise(l.ret) /\ l.ret.v = "ValueError"

\* C21: while caching is active the eviction queue and the entry table hold
\* the same keys, each once, whatever wrapper calls were made, the
\* function's own calls of its wrapper during a miss included.
C21_QueueMatchesTable ==
    maxsize > 0 =>
        /\ Len(key_ord) = Cardinality(DOMAIN cache)
        /\ Queued = DOMAIN cache

\* C22: after every completed call of a wrapper with maxsize = N > 0, in any
\* sequence of hits, misses and calls with unhashable arguments, the cache
\* holds at most N entries.
C22_AtMostMaxsizeEntries ==
    (decorated = "wrapper" /\ stack = <<>>) => Cardinality(DOMAIN cache) <= maxsize

\* C23: when the function raises during a miss the wrapper call raises the
\* same exception and leaves the table and the queue as they are; if the
\* body made no wrapper call of its own the key is then still uncached, so
\* the next call with the same arguments runs the function again.
C23_RaisingMissStoresNothing ==
    /\ [][(Len(stack') < Len(stack) /\ BodyRaised(last'))
            => /\ cache' = cache /\ key_ord' = key_ord
               /\ (Top.k.ok /\ ~Top.nested) => Top.k.key \notin DOMAIN cache']_vars
    /\ [][(stack = <<>> /\ BodyRaised(last) /\ ~last.nested /\ stack' # <<>>
             /\ stack'[1].args = last.args /\ stack'[1].kwargs = last.kwargs)
            => call_count' = call_count + 1]_vars
    /\ [][(stack = <<>> /\ BodyRaised(last) /\ ~last.nested /\ stack' = <<>>)
            => last'.args # last.args]_vars

C23_Witness ==
    /\ stack = <<>>
    /\ BodyRaised(last) /\ ~last.nested
    /\ Len(key_ord) = maxsize /\ maxsize = MaxMaxsize
    /\ call_count = MaxCalls

----------------------------------------------------------------------------
(* curry_explicit: stages applied more than once *)

\* the stages the caller keeps, and the results of the branches that ran
\* to the end
StagesHeld == {i \in DOMAIN held : held[i].val.t = "stage"}
Completed == {i \in DOMAIN held : held[i].val.t # "stage"}

\* the number of completed branches among the first i things kept
RECURSIVE CompletedUpTo(_)
CompletedUpTo(i) ==
    IF i = 0 THEN 0 ELSE CompletedUpTo(i - 1) + (IF i \in Completed THEN 1 ELSE 0)

\* C24: however the stages of a curried chain are applied again, with
\* whatever arguments and in whatever order, every stage holds exactly the
\* arguments given on the way to it (none of a sibling branch) and fewer of
\* them than the arity, and every completed branch ran fn once, with
\* exactly the arity-many arguments of its own path, and returned fn's value
C24_StagesIndependent ==
    /\ \A i \in StagesHeld :
          /\ arglists[held[i].val.v] = held[i].path
          /\ Len(arglists[held[i].val.v]) < arity
    /\ Len(call_log) = Cardinality(Completed)
    /\ \A i \in Completed :
          /\ Len(held[i].path) = arity
          /\ call_log[CompletedUpTo(i)] = held[i].path
          /\ held[i].val = IntV(AltSum(held[i].path))

\* one stage applied twice, with different arguments, both branches run to
\* the end, while another stage applied with a third argument is kept
C24_Witness ==
    /\ arity >= 2
    /\ \E i, j \in Completed : \E k \in StagesHeld :
          /\ i # j
          /\ SubSeq(held[i].path, 1, arity - 1) = SubSeq(held[j].path, 1, arity - 1)
          /\ held[i].path[arity] # held[j].path[arity]
          /\ held[k].path # <<>>
          /\ held[k].path # SubSeq(held[i].path, 1, Len(held[k].path))

====
